---- MODULE Spec2Model ----
(***************************************************************************)
(* Model of the poker WebSocket relay: lib/websocket.js (the connection /  *)
(* room registry and the broadcast functions) and server.js (the HTTP      *)
(* broadcast endpoints).                                                   *)
(*                                                                         *)
(* Node runs every handler to completion on one thread, so each handler    *)
(* is one atomic action.  JavaScript Map and Set keep insertion order;     *)
(* they are modelled as duplicate-free sequences so that Array.from(...)   *)
(* and forEach see the order the code sees.  Timestamps and the free-text  *)
(* "message" fields of the payloads are not modelled, nor are the 'ping'   *)
(* and 'error' handlers, which read and write no registry state.           *)
(***************************************************************************)
EXTENDS Integers, Sequences, FiniteSets, TLC

\* ---------------------------------------------------------------- bounds
NumConns == 2
NumUsers == 2
NumRooms == 2

Conns == 1..NumConns      \* socket ids (socket.id)
Users == 1..NumUsers      \* user identifiers carried by valid tokens
Rooms == 1..NumRooms      \* room identifiers sent by clients / callers

\* Credentials a client may present in socket.handshake.auth.token.
Tokens == {[kind |-> "missing"], [kind |-> "invalid"]}
            \cup {[kind |-> "valid", userId |-> u] : u \in Users}

\* Event names of the exported broadcast helpers that go through
\* broadcastToRoom; one of them (broadcastHandStart) stands for the five.
Events == {"hand-started"}

VARIABLES
  io,               \* lib/websocket.js `io`: FALSE until initializeWebSocket ran
  status,           \* per socket: "new" (id not yet used), "connected", "disconnected"
  userId,           \* socket.userId, defined for authenticated sockets only
  adapter,          \* socket.io adapter rooms: room -> sockets joined, in join order
  userSockets,      \* Map userId -> socket
  roomConnections,  \* Map roomId -> Set of userIds (insertion ordered)
  last              \* the last handler run: its inputs and the packets it
                    \* delivered, in order

vars == <<io, status, userId, adapter, userSockets, roomConnections, last>>

\* ------------------------------------------------ insertion-ordered Set/Map
Elems(s) == {s[i] : i \in 1..Len(s)}

SeqHas(s, x) == \E i \in 1..Len(s) : s[i] = x

\* Set.prototype.add
SetAdd(s, x) == IF SeqHas(s, x) THEN s ELSE Append(s, x)

\* Set.prototype.delete
SetDelete(s, x) == SelectSeq(s, LAMBDA y : y # x)

\* Map.prototype.has on roomConnections
RoomHas(rc, roomId) == \E i \in 1..Len(rc) : rc[i].roomId = roomId

\* Map.prototype.get on roomConnections (only used when RoomHas)
RoomGet(rc, roomId) == rc[CHOOSE i \in 1..Len(rc) : rc[i].roomId = roomId].users

\* Map.prototype.set on userSockets
MapSet(m, k, v) == [x \in (DOMAIN m) \cup {k} |-> IF x = k THEN v ELSE m[x]]

\* Map.prototype.delete on userSockets
MapDelete(m, k) == [x \in (DOMAIN m) \ {k} |-> m[x]]

\* The empty Map
EmptyMap == [x \in {} |-> 0]

\* ------------------------------------------------------ registry helpers
addToRoomConnections(rc, uid, roomId) ==
  LET rc1 == IF ~RoomHas(rc, roomId)
             THEN Append(rc, [roomId |-> roomId, users |-> <<>>])
             ELSE rc
  IN [i \in 1..Len(rc1) |->
        IF rc1[i].roomId = roomId
        THEN [rc1[i] EXCEPT !.users = SetAdd(@, uid)]
        ELSE rc1[i]]

\* removeFromRoomConnections without the clean-up of the emptied room
removeFromRoomConnectionsNoCleanup(rc, uid, roomId) ==
  [i \in 1..Len(rc) |->
     IF rc[i].roomId = roomId
     THEN [rc[i] EXCEPT !.users = SetDelete(@, uid)]
     ELSE rc[i]]

removeFromRoomConnections(rc, uid, roomId) ==
  IF RoomHas(rc, roomId)
  THEN LET rc1 == [i \in 1..Len(rc) |->
                     IF rc[i].roomId = roomId
                     THEN [rc[i] EXCEPT !.users = SetDelete(@, uid)]
                     ELSE rc[i]]
       IN IF Len(RoomGet(rc1, roomId)) = 0
          THEN SelectSeq(rc1, LAMBDA e : e.roomId # roomId)
          ELSE rc1
  ELSE rc

RECURSIVE getUserRoomsFrom(_, _, _)
getUserRoomsFrom(rc, uid, i) ==
  IF i > Len(rc) THEN <<>>
  ELSE (IF SeqHas(rc[i].users, uid) THEN <<rc[i].roomId>> ELSE <<>>)
         \o getUserRoomsFrom(rc, uid, i + 1)

getUserRooms(rc, uid) == getUserRoomsFrom(rc, uid, 1)

getRoomUsers(rc, roomId) == IF RoomHas(rc, roomId) THEN RoomGet(rc, roomId) ELSE <<>>

\* --------------------------------------------------------- socket.io side
\* socket.rooms without the socket's own private room
SocketRooms(ad, socket) == {r \in Rooms : SeqHas(ad[r], socket)}

\* Array.from(socket.rooms).filter(room => room !== socket.id), in a fixed order
RECURSIVE SetToSeq(_)
SetToSeq(S) == IF S = {} THEN <<>>
               ELSE LET x == CHOOSE y \in S : \A z \in S : y <= z
                    IN <<x>> \o SetToSeq(S \ {x})

\* socket.join(room)
SocketJoin(ad, socket, roomId) == [ad EXCEPT ![roomId] = SetAdd(@, socket)]

\* socket.leave(room)
SocketLeave(ad, socket, roomId) == [ad EXCEPT ![roomId] = SetDelete(@, socket)]

\* socket.io leaves every room of a socket before it emits 'disconnect'
SocketLeaveAll(ad, socket) == [r \in Rooms |-> SetDelete(ad[r], socket)]

Packet(to, event, payload) == [to |-> to, event |-> event, payload |-> payload]

RECURSIVE EmitTo(_, _, _, _)
\* one packet per socket of `targets` (a sequence), skipping `except`
EmitTo(targets, except, event, payload) ==
  IF targets = <<>> THEN <<>>
  ELSE (IF Head(targets) \in except THEN <<>>
        ELSE <<Packet(Head(targets), event, payload)>>)
         \o EmitTo(Tail(targets), except, event, payload)

\* io.to(roomId).emit in the place of socket.to(roomId).emit: the sender is
\* not left out
SocketToRoomEmitEcho(ad, socket, roomId, event, payload) ==
  EmitTo(ad[roomId], {}, event, payload)

\* socket.to(roomId).emit(event, payload): the room's sockets but the sender
SocketToRoomEmit(ad, socket, roomId, event, payload) ==
  EmitTo(ad[roomId], {socket}, event, payload)

\* io.to(roomId).emit(event, payload): every socket of the room
IoToRoomEmit(ad, roomId, event, payload) ==
  EmitTo(ad[roomId], {}, event, payload)

\* ------------------------------------------------------------------- Init
Init ==
  /\ io = FALSE
  /\ status = [c \in Conns |-> "new"]
  /\ userId = EmptyMap
  /\ adapter = [r \in Rooms |-> <<>>]
  /\ userSockets = EmptyMap
  /\ roomConnections = <<>>
  /\ last = [op |-> "init"]

\* initializeWebSocket(server), called once by server.js
InitializeWebSocket ==
  /\ ~io
  /\ io' = TRUE
  /\ last' = [op |-> "initialize"]
  /\ UNCHANGED <<status, userId, adapter, userSockets, roomConnections>>

\* the middleware recording the socket under the token's claimed user before
\* jwt.verify has accepted the token
HandshakeRegistersFirst(socket, token) ==
  /\ io
  /\ status[socket] = "new"
  /\ \A c \in Conns : c < socket => status[c] # "new"
  /\ IF token.kind = "valid"
     THEN /\ userId' = MapSet(userId, socket, token.userId)
          /\ userSockets' = MapSet(userSockets, token.userId, socket)
          /\ status' = [status EXCEPT ![socket] = "connected"]
          /\ last' = [op |-> "connect", socket |-> socket, out |-> <<>>]
     ELSE /\ last' = [op |-> "reject", socket |-> socket, out |-> <<>>,
                      error |-> IF token.kind = "missing"
                                THEN "Authentication required"
                                ELSE "Authentication failed"]
          /\ IF token.kind = "invalid"
             THEN \E u \in Users : userSockets' = MapSet(userSockets, u, socket)
             ELSE UNCHANGED userSockets
          /\ UNCHANGED <<status, userId>>
  /\ UNCHANGED <<io, adapter, roomConnections>>

\* io.use authentication middleware followed by the 'connection' event.
\* socket.io gives every handshake a fresh socket id: ids are handed out in
\* order.  A rejected handshake never becomes a connection: its socket is
\* dropped and leaves nothing behind, so it uses up no id of Conns.
Handshake(socket, token) ==
  /\ io
  /\ status[socket] = "new"
  /\ \A c \in Conns : c < socket => status[c] # "new"
  /\ IF token.kind = "valid"
     THEN /\ userId' = MapSet(userId, socket, token.userId)
          /\ userSockets' = MapSet(userSockets, token.userId, socket)
          /\ status' = [status EXCEPT ![socket] = "connected"]
          /\ last' = [op |-> "connect", socket |-> socket, out |-> <<>>]
     ELSE /\ last' = [op |-> "reject", socket |-> socket, out |-> <<>>,
                      error |-> IF token.kind = "missing"
                                THEN "Authentication required"
                                ELSE "Authentication failed"]
          /\ UNCHANGED <<status, userId, userSockets>>
  /\ UNCHANGED <<io, adapter, roomConnections>>

\* the result of a handler: the registry and adapter it leaves, the packets
\* it delivered (in order)
Result(us, rc, ad, out) ==
  [userSockets |-> us, roomConnections |-> rc, adapter |-> ad, out |-> out]

RECURSIVE leavePreviousRooms(_, _, _)
\* previousRooms.forEach(room => { socket.leave(room); removeFromRoomConnections })
leavePreviousRooms(previousRooms, socket, st) ==
  IF previousRooms = <<>> THEN st
  ELSE leavePreviousRooms(Tail(previousRooms), socket,
         [st EXCEPT
            !.adapter = SocketLeave(@, socket, Head(previousRooms)),
            !.roomConnections =
               removeFromRoomConnections(@, userId[socket], Head(previousRooms))])

\* the join-room handler without "Leave any previous rooms"
joinRoomHandlerKeepsPrevious(socket, roomId, us, rc, ad) ==
  LET ad2 == SocketJoin(ad, socket, roomId)
      rc2 == addToRoomConnections(rc, userId[socket], roomId)
  IN Result(us, rc2, ad2,
       SocketToRoomEmit(ad2, socket, roomId, "player-connected",
                        [userId |-> userId[socket]])
       \o <<Packet(socket, "room-joined",
                   [roomId |-> roomId,
                    connectedUsers |-> getRoomUsers(rc2, roomId)])>>)

\* the join-room handler taking the connectedUsers snapshot before it adds
\* the joining user
joinRoomHandlerSnapshotFirst(socket, roomId, us, rc, ad) ==
  LET previousRooms == SetToSeq(SocketRooms(ad, socket))
      left == leavePreviousRooms(previousRooms, socket, Result(us, rc, ad, <<>>))
      ad2 == SocketJoin(left.adapter, socket, roomId)
      rc2 == addToRoomConnections(left.roomConnections, userId[socket], roomId)
  IN Result(us, rc2, ad2,
       SocketToRoomEmit(ad2, socket, roomId, "player-connected",
                        [userId |-> userId[socket]])
       \o <<Packet(socket, "room-joined",
                   [roomId |-> roomId,
                    connectedUsers |-> getRoomUsers(left.roomConnections, roomId)])>>)

\* socket.on('join-room', roomId)
joinRoomHandler(socket, roomId, us, rc, ad) ==
  LET previousRooms == SetToSeq(SocketRooms(ad, socket))
      left == leavePreviousRooms(previousRooms, socket, Result(us, rc, ad, <<>>))
      ad2 == SocketJoin(left.adapter, socket, roomId)
      rc2 == addToRoomConnections(left.roomConnections, userId[socket], roomId)
  IN Result(us, rc2, ad2,
       SocketToRoomEmit(ad2, socket, roomId, "player-connected",
                        [userId |-> userId[socket]])
       \o <<Packet(socket, "room-joined",
                   [roomId |-> roomId,
                    connectedUsers |-> getRoomUsers(rc2, roomId)])>>)

\* the leave-room handler without removeFromRoomConnections
leaveRoomHandlerKeepsMembership(socket, roomId, us, rc, ad) ==
  LET ad1 == SocketLeave(ad, socket, roomId)
  IN Result(us, rc, ad1,
       SocketToRoomEmit(ad1, socket, roomId, "player-disconnected",
                        [userId |-> userId[socket]]))

\* socket.on('leave-room', roomId)
leaveRoomHandler(socket, roomId, us, rc, ad) ==
  LET ad1 == SocketLeave(ad, socket, roomId)
      rc1 == removeFromRoomConnections(rc, userId[socket], roomId)
  IN Result(us, rc1, ad1,
       SocketToRoomEmit(ad1, socket, roomId, "player-disconnected",
                        [userId |-> userId[socket]]))

RECURSIVE notifyUserRooms(_, _, _, _)
\* userRooms.forEach(roomId => { removeFromRoomConnections; socket.to(roomId).emit })
notifyUserRooms(userRooms, socket, reason, st) ==
  IF userRooms = <<>> THEN st
  ELSE notifyUserRooms(Tail(userRooms), socket, reason,
         [st EXCEPT
            !.roomConnections =
               removeFromRoomConnections(@, userId[socket], Head(userRooms)),
            !.out = @ \o SocketToRoomEmit(st.adapter, socket, Head(userRooms),
                                          "player-disconnected",
                                          [userId |-> userId[socket],
                                           reason |-> reason])])

RECURSIVE notifyOnly(_, _, _, _)
notifyOnly(userRooms, socket, reason, st) ==
  IF userRooms = <<>> THEN st
  ELSE notifyOnly(Tail(userRooms), socket, reason,
         [st EXCEPT
            !.out = @ \o SocketToRoomEmit(st.adapter, socket, Head(userRooms),
                                          "player-disconnected",
                                          [userId |-> userId[socket],
                                           reason |-> reason])])

\* the disconnect handler notifying the user's rooms without removing the
\* user from them
disconnectHandlerKeepsMembership(socket, reason, us, rc, ad) ==
  LET us1 == MapDelete(us, userId[socket])
      userRooms == getUserRooms(rc, userId[socket])
  IN notifyOnly(userRooms, socket, reason, Result(us1, rc, ad, <<>>))

\* the disconnect handler without userSockets.delete
disconnectHandlerKeepsRecord(socket, reason, us, rc, ad) ==
  notifyUserRooms(getUserRooms(rc, userId[socket]), socket, reason,
                  Result(us, rc, ad, <<>>))

\* socket.on('disconnect', reason); `ad` is the adapter after socket.io removed
\* the socket from its rooms
disconnectHandler(socket, reason, us, rc, ad) ==
  LET us1 == MapDelete(us, userId[socket])
      userRooms == getUserRooms(rc, userId[socket])
  IN notifyUserRooms(userRooms, socket, reason, Result(us1, rc, ad, <<>>))

\* the `type` field the broadcast helpers put in the payload
EventType(event) == IF event = "hand-started" THEN "hand-start" ELSE "player-join"

RECURSIVE EmitToUsers(_, _, _)
EmitToUsers(users, event, payload) ==
  IF users = <<>> THEN <<>>
  ELSE (IF Head(users) \in DOMAIN userSockets
        THEN <<Packet(userSockets[Head(users)], event, payload)>>
        ELSE <<>>)
         \o EmitToUsers(Tail(users), event, payload)

\* broadcastToRoom emitting to the room and, again, to the socket on file of
\* each user of roomUsers
broadcastToRoomTwice(roomId, event, ad) ==
  IF io
  THEN IoToRoomEmit(ad, roomId, event, [type |-> EventType(event), roomId |-> roomId])
       \o EmitToUsers(getRoomUsers(roomConnections, roomId), event,
                      [type |-> EventType(event), roomId |-> roomId])
  ELSE <<>>

\* broadcastToRoom(roomId, event, data)
broadcastToRoom(roomId, event, ad) ==
  IF io
  THEN IoToRoomEmit(ad, roomId, event, [type |-> EventType(event), roomId |-> roomId])
  ELSE <<>>

\* ---------------------------------------------------------------- actions
Reasons == {"transport close"}

\* the keys of roomConnections (what roomConnections.entries() enumerates)
RoomKeys(rc) == {rc[i].roomId : i \in 1..Len(rc)}

\* What `last` keeps of a socket handler's run: the event and its arguments,
\* socket.rooms when the handler began, the room entries that are gone when
\* it ends, and the packets it delivered.
Ran(op, socket, args, res) ==
  [op |-> op, socket |-> socket, args |-> args,
   rooms |-> SocketRooms(adapter, socket),
   dropped |-> RoomKeys(roomConnections) \ RoomKeys(res.roomConnections),
   out |-> res.out]

\* the handler's result `res` becomes the state (each action below runs its
\* handler once and binds the result)
Apply(res) ==
  /\ userSockets' = res.userSockets
  /\ roomConnections' = res.roomConnections
  /\ adapter' = res.adapter

JoinRoom(socket, roomId) ==
  /\ status[socket] = "connected"
  /\ \E res \in {joinRoomHandler(socket, roomId, userSockets, roomConnections, adapter)} :
       /\ Apply(res)
       /\ last' = Ran("join-room", socket, [roomId |-> roomId], res)
  /\ UNCHANGED <<io, status, userId>>

LeaveRoom(socket, roomId) ==
  /\ status[socket] = "connected"
  /\ \E res \in {leaveRoomHandler(socket, roomId, userSockets, roomConnections, adapter)} :
       /\ Apply(res)
       /\ last' = Ran("leave-room", socket, [roomId |-> roomId], res)
  /\ UNCHANGED <<io, status, userId>>

Disconnect(socket, reason) ==
  /\ status[socket] = "connected"
  /\ \E res \in {disconnectHandler(socket, reason, userSockets, roomConnections,
                                   SocketLeaveAll(adapter, socket))} :
       /\ Apply(res)
       /\ last' = Ran("disconnect", socket, [reason |-> reason], res)
  /\ status' = [status EXCEPT ![socket] = "disconnected"]
  /\ UNCHANGED <<io, userId>>

\* a caller of the exported broadcast helpers
BroadcastToRoom(roomId, event) ==
  /\ last' = [op |-> "broadcast", args |-> [roomId |-> roomId, event |-> event],
              out |-> broadcastToRoom(roomId, event, adapter)]
  /\ UNCHANGED <<io, status, userId, adapter, userSockets, roomConnections>>

\* the route answering success only when the event reached some socket
HttpBroadcastNeedsMembers(roomId) ==
  /\ io
  /\ \E out \in {IoToRoomEmit(adapter, roomId, "player-joined", [roomId |-> roomId])} :
       last' = [op |-> "http-broadcast", args |-> [roomId |-> roomId],
                out |-> out,
                response |-> IF out # <<>> THEN [status |-> 200, success |-> TRUE]
                             ELSE [status |-> 500, success |-> FALSE]]
  /\ UNCHANGED <<io, status, userId, adapter, userSockets, roomConnections>>

\* POST /broadcast/player-joined (the other POST /broadcast/* routes have the
\* same shape); the routes are served only once server.js has run to listen()
HttpBroadcast(roomId) ==
  /\ io
  /\ last' = [op |-> "http-broadcast", args |-> [roomId |-> roomId],
              out |-> IF io
                      THEN IoToRoomEmit(adapter, roomId, "player-joined",
                                        [roomId |-> roomId])
                      ELSE <<>>,
              response |-> IF io THEN [status |-> 200, success |-> TRUE]
                           ELSE [status |-> 500, success |-> FALSE]]
  /\ UNCHANGED <<io, status, userId, adapter, userSockets, roomConnections>>

\* getWebSocketStats counting as connected the users found in the rooms
\* rather than the entries of userSockets
getWebSocketStatsCountsRoomUsers(us, rc) ==
  [isInitialized |-> io,
   connectedUsers |-> Cardinality(UNION {Elems(rc[i].users) : i \in 1..Len(rc)}),
   activeRooms |-> Len(rc),
   roomDetails |-> [i \in 1..Len(rc) |->
                      [roomId |-> rc[i].roomId,
                       userCount |-> Len(rc[i].users),
                       users |-> rc[i].users]]]

\* getWebSocketStats()
getWebSocketStats(us, rc) ==
  [isInitialized |-> io,
   connectedUsers |-> Cardinality(DOMAIN us),
   activeRooms |-> Len(rc),
   roomDetails |-> [i \in 1..Len(rc) |->
                      [roomId |-> rc[i].roomId,
                       userCount |-> Len(rc[i].users),
                       users |-> rc[i].users]]]

\* GET /stats (GET /health answers the same stats under a status field)
GetStats ==
  /\ io
  /\ last' = [op |-> "stats", out |-> <<>>,
              response |-> getWebSocketStats(userSockets, roomConnections)]
  /\ UNCHANGED <<io, status, userId, adapter, userSockets, roomConnections>>

Next ==
  \/ InitializeWebSocket
  \/ \E socket \in Conns, token \in Tokens : Handshake(socket, token)
  \/ \E socket \in Conns, roomId \in Rooms : JoinRoom(socket, roomId)
  \/ \E socket \in Conns, roomId \in Rooms : LeaveRoom(socket, roomId)
  \/ \E socket \in Conns, reason \in Reasons : Disconnect(socket, reason)
  \/ \E roomId \in Rooms, event \in Events : BroadcastToRoom(roomId, event)
  \/ \E roomId \in Rooms : HttpBroadcast(roomId)
  \/ GetStats

Spec == Init /\ [][Next]_vars

\* ------------------------------------------------------- observations
\* the member set of a room in the registry
Members(roomId) == Elems(getRoomUsers(roomConnections, roomId))

\* the rooms a socket is joined to (its private room left out)
JoinedRooms(socket) == SocketRooms(adapter, socket)

\* the packets of `out` that carry `event` to socket `to`
PacketsTo(out, to, event) ==
  {i \in 1..Len(out) : out[i].to = to /\ out[i].event = event}

\* the sockets `out` delivers anything to
Recipients(out) == {out[i].to : i \in 1..Len(out)}

IsBroadcast == last.op \in {"broadcast", "http-broadcast"}

\* ------------------------------------------------------------------ C1
\* C1 (invariant I1): a user identifier is in a room's member set if and only
\* if the connection on file for that user is joined to exactly that room.
C1_MembershipMatchesCurrentConnection ==
  \A u \in Users, r \in Rooms :
    (u \in Members(r)) <=>
      (u \in DOMAIN userSockets /\ JoinedRooms(userSockets[u]) = {r})

\* ------------------------------------------------------------------ C2
\* C2: a join-room for room B by a connection joined to another room A
\* delivers exactly one departure notice to each remaining connection of A,
\* then exactly one arrival notice to each other connection of B, then
\* exactly one room-joined confirmation to the joiner.
C2_SwitchNotices ==
  \A a \in Rooms :
    (/\ last.op = "join-room"
     /\ a \in last.rooms
     /\ a # last.args.roomId)
    => LET b == last.args.roomId
           c == last.socket
           out == last.out
       IN /\ \A m \in Elems(adapter[a]) :
                Cardinality(PacketsTo(out, m, "player-disconnected")) = 1
          /\ \A m \in Elems(adapter[b]) \ {c} :
                Cardinality(PacketsTo(out, m, "player-connected")) = 1
          /\ Cardinality(PacketsTo(out, c, "room-joined")) = 1
          /\ \A i, j \in 1..Len(out) :
                (out[i].event = "player-disconnected"
                 /\ out[j].event = "player-connected") => i < j
          /\ out[Len(out)].event = "room-joined"

\* ------------------------------------------------------------------ C3
\* C3: a disconnect of a connection that is not the one on file for its user
\* leaves the user's record pointing to the connection on file.
C3_StaleDisconnectKeepsRecord ==
  [][\A c \in Conns :
       (/\ last'.op = "disconnect"
        /\ last'.socket = c
        /\ status[c] = "connected"
        /\ userId[c] \in DOMAIN userSockets
        /\ userSockets[userId[c]] # c)
       => (/\ userId[c] \in DOMAIN userSockets'
           /\ userSockets'[userId[c]] = userSockets[userId[c]])]_vars

\* ------------------------------------------------------------------ C4
\* C4: running the disconnect handler a second time for the connection that
\* just disconnected leaves the user-to-connection map and the room member
\* sets as the first run left them, and delivers no notice.
C4_DisconnectIdempotent ==
  last.op = "disconnect" =>
    LET again == disconnectHandler(last.socket, last.args.reason, userSockets,
                                   roomConnections,
                                   SocketLeaveAll(adapter, last.socket))
    IN /\ again.userSockets = userSockets
       /\ again.roomConnections = roomConnections
       /\ again.out = <<>>

\* a disconnect that removed a membership and notified a peer
C4_Witness ==
  /\ last.op = "disconnect"
  /\ last.rooms # {}
  /\ last.out # <<>>

\* ------------------------------------------------------------------ C5
\* C5 (invariant I3): no room key of the registry maps to an empty member
\* set; a room whose member set a removal emptied is no longer enumerated.
C5_NoEmptyRoom ==
  /\ \A i \in 1..Len(roomConnections) : Len(roomConnections[i].users) > 0
  /\ \A r \in Rooms : Members(r) = {} => r \notin RoomKeys(roomConnections)

\* a leave-room that emptied the room, whose entry is gone
C5_Witness ==
  /\ last.op = "leave-room"
  /\ last.args.roomId \in last.rooms
  /\ last.args.roomId \in last.dropped

\* ------------------------------------------------------------------ C6
\* C6 (invariant I2): every connection is joined to at most one room, and
\* after a join-room the connection is joined to the requested room only.
C6_AtMostOneRoom ==
  /\ \A c \in Conns : Cardinality(JoinedRooms(c)) <= 1
  /\ last.op = "join-room" => JoinedRooms(last.socket) = {last.args.roomId}

\* a join-room by a connection that was joined to another room
C6_Witness ==
  /\ last.op = "join-room"
  /\ last.rooms # {}
  /\ last.args.roomId \notin last.rooms

\* ------------------------------------------------------------------ C7
\* C7: a leave-room for a room the connection is not joined to changes no
\* registry state and delivers no notice.
C7_LeaveUnjoinedIsNoOp ==
  [][(/\ last'.op = "leave-room"
      /\ status[last'.socket] = "connected"
      /\ last'.args.roomId \notin JoinedRooms(last'.socket))
     => (/\ userSockets' = userSockets
         /\ roomConnections' = roomConnections
         /\ last'.out = <<>>)]_vars

\* ------------------------------------------------------------------ C8
\* the connectedUsers array of the room-joined confirmation in `out`
ConnectedUsers(out) == out[Len(out)].payload.connectedUsers

\* C8 (as claimed): the room-joined confirmation lists the users that were
\* members of the room before the join.
C8_SnapshotBeforeJoin ==
  [][last'.op = "join-room" =>
       ConnectedUsers(last'.out) = getRoomUsers(roomConnections, last'.args.roomId)]_vars

\* C8 (amended): the room-joined confirmation lists the members of the room
\* after the join: the users that were members before it together with the
\* joining user, so the first joiner of an empty room receives itself alone.
C8_SnapshotAfterJoin ==
  [][last'.op = "join-room" =>
       LET cu == ConnectedUsers(last'.out)
           r == last'.args.roomId
           u == userId[last'.socket]
       IN /\ last'.out[Len(last'.out)].event = "room-joined"
          /\ last'.out[Len(last'.out)].to = last'.socket
          /\ cu = getRoomUsers(roomConnections', r)
          /\ Elems(cu) = Elems(getRoomUsers(roomConnections, r)) \cup {u}
          /\ (getRoomUsers(roomConnections, r) = <<>> => cu = <<u>>)]_vars

\* the second user of a room is told of both members, the first one first
C8_Witness ==
  /\ last.op = "join-room"
  /\ last.rooms = {}
  /\ Len(ConnectedUsers(last.out)) = 2
  /\ ConnectedUsers(last.out)[2] = userId[last.socket]

\* ------------------------------------------------------------------ C9
\* C9: a broadcast delivers only to connections that are still connected,
\* at most once to each, and the HTTP trigger answers success.
C9_BroadcastSkipsDisconnected ==
  IsBroadcast =>
    /\ \A c \in Recipients(last.out) : status[c] = "connected"
    /\ \A c \in Conns :
         Cardinality({i \in 1..Len(last.out) : last.out[i].to = c}) <= 1
    /\ \A i \in 1..Len(last.out) : last.args.roomId \in JoinedRooms(last.out[i].to)
    /\ last.op = "http-broadcast" => last.response.success

\* a broadcast that reached a connection of a room one of whose recorded
\* members has a connection that already disconnected
C9_Witness ==
  /\ IsBroadcast
  /\ last.out # <<>>
  /\ \E u \in Members(last.args.roomId) :
       \E c \in Conns : status[c] = "disconnected" /\ userId[c] = u

\* ----------------------------------------------------------------- C10
\* the connections on file for the recorded members of a room
ResolvedMembers(roomId) ==
  {userSockets[u] : u \in Members(roomId) \cap DOMAIN userSockets}

\* C10: the connections a broadcast for room R reaches are exactly the
\* connections on file for the users of R's member set.
C10_RecipientsAreResolvedMembers ==
  (IsBroadcast /\ io) => Recipients(last.out) = ResolvedMembers(last.args.roomId)

\* ----------------------------------------------------------------- C11
\* the sockets the user-to-connection map points to
SocketsOnFile == {userSockets[u] : u \in DOMAIN userSockets}

\* C11: a handshake with a missing or an invalid credential is rejected with
\* the user-to-connection map, the room member sets and the sockets' rooms
\* left as they were, and no record of the rejected socket in the state.
C11_RejectLeavesRegistry ==
  [][last'.op = "reject" =>
       /\ userSockets' = userSockets
       /\ roomConnections' = roomConnections
       /\ adapter' = adapter
       /\ status' = status
       /\ last'.socket \notin SocketsOnFile'
       /\ last'.socket \notin DOMAIN userId'
       /\ last'.out = <<>>]_vars

\* a handshake rejected while the registry holds a connection and a room
C11_Witness ==
  /\ last.op = "reject"
  /\ userSockets # EmptyMap
  /\ roomConnections # <<>>

\* ----------------------------------------------------------------- C12
\* C12: a disconnected connection is on file for no user and joined to no
\* room, and right after its disconnect its user is in no room's member set,
\* whatever room the connection was joined to.
C12_DisconnectReleasesAll ==
  /\ \A c \in Conns :
       status[c] = "disconnected" =>
         /\ c \notin SocketsOnFile
         /\ JoinedRooms(c) = {}
  /\ last.op = "disconnect" =>
       \A r \in Rooms : userId[last.socket] \notin Members(r)

\* a disconnect of a connection that was joined to a room, whose entry went
C12_Witness ==
  /\ last.op = "disconnect"
  /\ last.rooms # {}
  /\ last.dropped = last.rooms

\* ----------------------------------------------------------------- C13
IsSocketOp == last.op \in {"join-room", "leave-room", "disconnect"}

\* the rooms whose connections `out` delivers a departure notice to (a
\* recipient of socket.to(room).emit is joined to that room)
NoticeRooms(out) ==
  UNION {JoinedRooms(out[i].to) :
           i \in {j \in 1..Len(out) : out[j].event = "player-disconnected"}}

\* C13: one join-room, leave-room or disconnect delivers departure notices
\* to at most one room, and a disconnect only to a room the disconnecting
\* connection was joined to.
C13_OneRoomNotified ==
  IsSocketOp =>
    /\ Cardinality(NoticeRooms(last.out)) <= 1
    /\ last.op = "disconnect" => NoticeRooms(last.out) \subseteq last.rooms

\* ----------------------------------------------------------------- C14
IsNotice(p) == p.event \in {"player-connected", "player-disconnected"}

\* the sockets `out` delivers `event` to
RecipientsOf(out, event) == {out[i].to : i \in {j \in 1..Len(out) : out[j].event = event}}

\* C14: no membership-change notice goes to the connection that caused it;
\* the arrival notice of a join goes to every other connection of the room
\* and before the room-joined confirmation, the departure notice of a
\* leave-room to every other connection of the room.
C14_NoEcho ==
  IsSocketOp =>
    /\ \A i \in 1..Len(last.out) : IsNotice(last.out[i]) => last.out[i].to # last.socket
    /\ last.op = "join-room" =>
         /\ RecipientsOf(last.out, "player-connected")
              = Elems(adapter[last.args.roomId]) \ {last.socket}
         /\ \A i \in 1..(Len(last.out) - 1) : last.out[i].event = "player-connected"
         /\ last.out[Len(last.out)] =
              Packet(last.socket, "room-joined",
                     [roomId |-> last.args.roomId,
                      connectedUsers |-> getRoomUsers(roomConnections, last.args.roomId)])
    /\ last.op = "leave-room" =>
         RecipientsOf(last.out, "player-disconnected")
           = Elems(adapter[last.args.roomId]) \ {last.socket}

\* a join that told a peer of the room and then confirmed to the joiner
C14_Witness ==
  /\ last.op = "join-room"
  /\ Len(last.out) = 2
  /\ last.out[1].event = "player-connected"
  /\ last.out[1].to # last.socket

\* ----------------------------------------------------------------- C15
\* C15: a leave-room for the room the connection is joined to removes the
\* user from that room's member set, delivers one departure notice to each
\* connection that remains in the room, leaves the connection in no room,
\* and changes no other room's member set nor the user-to-connection map.
C15_LeaveJoinedRoom ==
  [][(/\ last'.op = "leave-room"
      /\ status[last'.socket] = "connected"
      /\ last'.args.roomId \in JoinedRooms(last'.socket))
     => LET c == last'.socket
            r == last'.args.roomId
            u == userId[last'.socket]
            out == last'.out
        IN /\ Elems(getRoomUsers(roomConnections', r))
                = Elems(getRoomUsers(roomConnections, r)) \ {u}
           /\ \A m \in Elems(adapter'[r]) :
                Cardinality(PacketsTo(out, m, "player-disconnected")) = 1
           /\ Len(out) = Cardinality(Elems(adapter'[r]))
           /\ SocketRooms(adapter', c) = {}
           /\ \A r2 \in Rooms \ {r} :
                getRoomUsers(roomConnections', r2) = getRoomUsers(roomConnections, r2)
           /\ userSockets' = userSockets]_vars

\* a leave-room of the joined room that told the one connection left in it
C15_Witness ==
  /\ last.op = "leave-room"
  /\ last.args.roomId \in last.rooms
  /\ Len(last.out) = 1
  /\ last.out[1].event = "player-disconnected"

\* ----------------------------------------------------------------- C16
\* C16: an HTTP trigger answers success exactly when the router is
\* initialized, whether or not the room has a member; while the router is
\* not initialized neither a trigger nor broadcastToRoom delivers anything.
C16_TriggerSuccess ==
  /\ last.op = "http-broadcast" =>
       /\ last.response.success = io
       /\ last.response.status = (IF io THEN 200 ELSE 500)
       /\ ~io => last.out = <<>>
  /\ (last.op = "broadcast" /\ ~io) => last.out = <<>>

\* a trigger for a room no socket is joined to, answered with success
C16_Witness ==
  /\ last.op = "http-broadcast"
  /\ adapter[last.args.roomId] = <<>>
  /\ last.out = <<>>
  /\ last.response.success

\* ----------------------------------------------------------------- C17
\* C17: the stats query changes neither the user-to-connection map nor any
\* room member set, and reports the number of user-to-connection records,
\* the number of room entries and, for each room entry, the size of its
\* member set.
C17_StatsReadOnly ==
  [][last'.op = "stats" =>
       LET st == last'.response
       IN /\ UNCHANGED <<userSockets, roomConnections, adapter, status, userId>>
          /\ st.connectedUsers = Cardinality(DOMAIN userSockets)
          /\ st.activeRooms = Cardinality(RoomKeys(roomConnections))
          /\ Len(st.roomDetails) = st.activeRooms
          /\ {st.roomDetails[i].roomId : i \in 1..Len(st.roomDetails)}
               = RoomKeys(roomConnections)
          /\ \A i \in 1..Len(st.roomDetails) :
               /\ st.roomDetails[i].userCount
                    = Cardinality(Members(st.roomDetails[i].roomId))
               /\ Elems(st.roomDetails[i].users) = Members(st.roomDetails[i].roomId)]_vars

\* stats taken while a connected user is in no room and another is in one
C17_Witness ==
  /\ last.op = "stats"
  /\ last.response.connectedUsers = 2
  /\ last.response.activeRooms = 1
  /\ last.response.roomDetails[1].userCount = 1

\* ----------------------------------------------------------------- C18
\* C18: a user identifier is in the member set of at most one room, also
\* when the user has several live connections that join different rooms.
C18_UserInAtMostOneRoom ==
  \A u \in Users : Cardinality({r \in Rooms : u \in Members(r)}) <= 1

\* ----------------------------------------------------------------- C19
\* C19: every user identifier in some room's member set has a record in the
\* user-to-connection map.
C19_MembersAreConnected ==
  \A r \in Rooms : \A u \in Members(r) : u \in DOMAIN userSockets

\* ----------------------------------------------------------------- C20
\* C20: join-room(R) by a connection already joined to R leaves every
\* room's member set and the user-to-connection map as they were, and
\* delivers no player-disconnected notice.
C20_RejoinLeavesRegistry ==
  [][(last'.op = "join-room" /\ last'.args.roomId \in last'.rooms) =>
       /\ userSockets' = userSockets
       /\ \A r \in Rooms :
            Elems(getRoomUsers(roomConnections', r))
              = Elems(getRoomUsers(roomConnections, r))
       /\ \A i \in 1..Len(last'.out) : last'.out[i].event # "player-disconnected"]_vars

====
